---------------------------- MODULE Spec2Model ----------------------------
(***************************************************************************)
(* Smart Study Planner (src/app.py): the allocation planner generate_plan  *)
(* and the Streamlit handlers that feed it.                                *)
(*                                                                         *)
(* Hours are exact decimals counted in thousandths of an hour (0.006 h is  *)
(* 6, 3.0 h is 3000), so that round(h, 2) is a real conversion: it maps a  *)
(* value to the nearest multiple of 10.  Every hour value drawn below is   *)
(* even, so no value ever lies exactly between two hundredths, where       *)
(* Python's result would depend on the binary representation of the float. *)
(* Binary floating-point drift (0.3 - 0.1 - 0.1 < 0.1) is not modelled.    *)
(*                                                                         *)
(* A date string "YYYY-MM-DD" is the tuple <<y, m, d>>; a datetime.date is *)
(* its proleptic Gregorian ordinal (date.toordinal()).                     *)
(***************************************************************************)
EXTENDS Integers, Sequences, FiniteSets, TLC

VARIABLES
    tasks,              \* the caller's list of task records
    today,              \* date.today() (ordinal)
    weekday_cap_hours,  \* argument / slider
    weekend_cap_hours,  \* argument / slider
    pc,                 \* position inside generate_plan
    active,             \* local list: references (indices into tasks)
    cap,                \* local dict: dkey -> remaining capacity
    plan,               \* local dict: dkey -> list of <<name, rounded hours>>
    warnings,           \* local list of warning messages
    i,                  \* position of the for loop over active
    who,                \* history: dkey -> list of [task, h], parallel to plan
    warned              \* history: list of [task, left], parallel to warnings

vars == <<tasks, today, weekday_cap_hours, weekend_cap_hours, pc, active, cap,
          plan, warnings, i, who, warned>>

-----------------------------------------------------------------------------
(* Bounds and input domains *)

MaxTasks == 2

Names == {"A", "B"}
Priorities == {1, 2}
\* 2024-03-31 is a Sunday, 2024-04-01 a Monday
DateStrs == {<<2024, 3, 31>>, <<2024, 4, 1>>}
HoursSet == {0, 6, 16}
WeekdayCaps == {12}
WeekendCaps == {0, 12}

-----------------------------------------------------------------------------
(* Calendar: datetime.date, parse_date, str(date), date.weekday() *)

\* F applied to the value of v, which is evaluated once
Bind(v, F(_)) == CHOOSE r \in {F(x) : x \in {v}} : TRUE

IsLeap(y) == (y % 4 = 0) /\ ((y % 100 # 0) \/ (y % 400 = 0))

DaysInMonth(y, m) ==
    IF m = 2 THEN (IF IsLeap(y) THEN 29 ELSE 28)
    ELSE IF m \in {4, 6, 9, 11} THEN 30 ELSE 31

DaysBeforeYear(y) ==
    LET p == y - 1 IN p * 365 + (p \div 4) - (p \div 100) + (p \div 400)

RECURSIVE DaysBeforeMonth(_, _)
DaysBeforeMonth(y, m) ==
    IF m = 1 THEN 0 ELSE DaysBeforeMonth(y, m - 1) + DaysInMonth(y, m - 1)

\* the calendar the model's dates lie in, and date.toordinal() on it
CalendarDates ==
    {<<y, m, d>> \in {2024} \X (1..12) \X (1..31) : d <= DaysInMonth(y, m)}

ToOrdinal ==
    [s \in CalendarDates |->
        DaysBeforeYear(s[1]) + DaysBeforeMonth(s[1], s[2]) + s[3]]

FromOrdinal ==
    [n \in {ToOrdinal[s] : s \in CalendarDates} |->
        CHOOSE s \in CalendarDates : ToOrdinal[s] = n]

\* parse_date: "YYYY-MM-DD" -> date
parse_date(s) == ToOrdinal[s]

\* str(day): date -> "YYYY-MM-DD"
StrDate(n) == FromOrdinal[n]

\* date.weekday(): Monday is 0, Sunday is 6
Weekday(n) == (n + 6) % 7

-----------------------------------------------------------------------------
(* Numbers *)

Min(a, b) == IF a <= b THEN a ELSE b

\* round(h, 2) on thousandths: the nearest hundredth, an exact tie to even
Round2(h) ==
    LET q == h \div 10
        r == h % 10
    IN IF r < 5 THEN q * 10
       ELSE IF r > 5 THEN (q + 1) * 10
       ELSE IF q % 2 = 0 THEN q * 10 ELSE (q + 1) * 10

RECURSIVE SumSeq(_)
SumSeq(s) == IF s = <<>> THEN 0 ELSE Head(s) + SumSeq(Tail(s))

EmptyDict == [k \in {} |-> 0]

-----------------------------------------------------------------------------
(* generate_plan, lines 39-90 *)

\* mutant: a task with nothing remaining stays in the plan's input
IsActive_NonNegative(t) == t.remaining_hours >= 0

\* line 42: the filter's condition
IsActive(t) == t.remaining_hours > 0

\* line 42: active = [t for t in tasks if ...], as references into tasks
FilterActive(ts) ==
    SelectSeq([k \in 1..Len(ts) |-> k], LAMBDA k : IsActive(ts[k]))

\* mutant: the sort key is the due date alone
KeyLess_DueOnly(a, b) == parse_date(a.due_date) < parse_date(b.due_date)

\* line 43: the sort key (parse_date(due_date), priority), compared as tuples
KeyLess(a, b) ==
    \/ parse_date(a.due_date) < parse_date(b.due_date)
    \/ /\ parse_date(a.due_date) = parse_date(b.due_date)
       /\ a.priority < b.priority

\* list.sort is stable: x goes behind every element whose key is not greater
RECURSIVE InsertSorted(_, _, _)
InsertSorted(ts, s, x) ==
    IF s = <<>> THEN <<x>>
    ELSE IF KeyLess(ts[x], ts[Head(s)]) THEN <<x>> \o s
    ELSE <<Head(s)>> \o InsertSorted(ts, Tail(s), x)

RECURSIVE SortFrom(_, _, _, _)
SortFrom(ts, idxs, k, acc) ==
    IF k > Len(idxs) THEN acc
    ELSE SortFrom(ts, idxs, k + 1, InsertSorted(ts, acc, idxs[k]))

\* line 43: active.sort(key=...)
SortActive(ts, idxs) == SortFrom(ts, idxs, 1, <<>>)

\* line 43: the sort acts on the new list `active`; the caller's list keeps
\* its order
CallerListAfterSort(ts) == ts

\* line 51: last_due = max(parse_date(t["due_date"]) for t in active)
LastDue(ts, act) ==
    LET dues == {parse_date(ts[act[k]].due_date) : k \in 1..Len(act)}
    IN CHOOSE d \in dues : \A e \in dues : e <= d

\* mutant: only Saturday counts as weekend
CapOfDay_SaturdayOnly(day, wd, we) == IF Weekday(day) = 5 THEN we ELSE wd

\* lines 61-64: weekend (Sat 5, Sun 6) or weekday capacity
CapOfDay(day, wd, we) == IF Weekday(day) >= 5 THEN we ELSE wd

\* mutant: the table starts at the earliest start date of the active tasks
TableStart_EarliestStart(ts, act, td) ==
    LET starts == {parse_date(ts[act[k]].start_date) : k \in 1..Len(act)}
    IN CHOOSE d \in starts : \A e \in starts : d <= e

\* lines 55-66: the first day of the table
TableStart(ts, act, td) == td

\* lines 54-66: one key per day from today through last_due
TableKeys(ts, act, td) ==
    {StrDate(d) : d \in TableStart(ts, act, td)..LastDue(ts, act)}

BuildCap(ts, act, td, wd, we) ==
    [k \in TableKeys(ts, act, td) |-> CapOfDay(parse_date(k), wd, we)]

BuildPlan(ts, act, td) == [k \in TableKeys(ts, act, td) |-> <<>>]

\* line 76: cap.get(dkey, 0)
CapGet(c, dkey) == IF dkey \in DOMAIN c THEN c[dkey] ELSE 0

\* mutant: the task takes all its hours whatever the day has left
AllocHours_IgnoresCapacity(c, hours_left) == hours_left

\* line 77: h = min(cap[dkey], hours_left)
AllocHours(c, hours_left) == Min(c, hours_left)

\* mutants: the walk runs one day past the due date; stops before it
WalkGoesOn_PastDue(day, due, hours_left) == day <= due + 1 /\ hours_left > 0
WalkGoesOn_BeforeDue(day, due, hours_left) == day < due /\ hours_left > 0

\* line 74: the walk goes on while day <= due and hours_left > 0
WalkGoesOn(day, due, hours_left) == day <= due /\ hours_left > 0

\* lines 74-81: the while loop of one task; st = [plan, cap, who], the
\* result adds hours_left
RECURSIVE Walk(_, _, _, _, _, _)
Walk(name, ti, day, due, hours_left, st) ==
    IF WalkGoesOn(day, due, hours_left)
    THEN Bind(StrDate(day), LAMBDA dkey :
         IF CapGet(st.cap, dkey) > 0
         THEN Bind(AllocHours(st.cap[dkey], hours_left), LAMBDA h :
              Bind([plan |-> [st.plan EXCEPT
                                 ![dkey] = Append(@, <<name, Round2(h)>>)],
                    cap  |-> [st.cap EXCEPT ![dkey] = @ - h],
                    who  |-> [st.who EXCEPT
                                 ![dkey] = Append(@, [task |-> ti, h |-> h])]],
                   LAMBDA next :
                       Walk(name, ti, day + 1, due, hours_left - h, next)))
         ELSE Walk(name, ti, day + 1, due, hours_left, st))
    ELSE [plan |-> st.plan, cap |-> st.cap, who |-> st.who,
          hours_left |-> hours_left]

\* mutant: the bookkeeping is done in the task record
RecordsAfterWalk_WritesBack(ts, ti, hours_left) ==
    [ts EXCEPT ![ti].remaining_hours = hours_left]

\* lines 71, 80: hours_left is a local number; the task record is not
\* written
RecordsAfterWalk(ts, ti, hours_left) == ts

\* mutant: the warning reports the task's hours, not the hours left
Warning_FullHours(t, hours_left) ==
    [name |-> t.name, short |-> Round2(t.remaining_hours),
     due_date |-> t.due_date]

\* lines 84-86: the warning message
Warning(t, hours_left) ==
    [name |-> t.name, short |-> Round2(hours_left), due_date |-> t.due_date]

\* lines 69-86: one iteration of the for loop
\* st = [tasks, plan, cap, who, warnings, warned]
AllocOne(ti, st) ==
    Bind(st.tasks[ti], LAMBDA t :
    Bind(Walk(t.name, ti, parse_date(t.start_date), parse_date(t.due_date),
              t.remaining_hours,
              [plan |-> st.plan, cap |-> st.cap, who |-> st.who]),
         LAMBDA w :
        [tasks    |-> RecordsAfterWalk(st.tasks, ti, w.hours_left),
         plan     |-> w.plan,
         cap      |-> w.cap,
         who      |-> w.who,
         warnings |-> IF w.hours_left > 0
                      THEN Append(st.warnings, Warning(t, w.hours_left))
                      ELSE st.warnings,
         warned   |-> IF w.hours_left > 0
                      THEN Append(st.warned,
                                  [task |-> ti, left |-> w.hours_left])
                      ELSE st.warned]))

\* line 89: plan = {d: items for d, items in plan.items() if items}
Prune(f) == [k \in {d \in DOMAIN f : f[d] # <<>>} |-> f[k]]

\* lines 69-86: the for loop from position k on (each pass works on the
\* evaluated result of the pass before it)
RECURSIVE AllocFrom(_, _, _)
AllocFrom(act, k, st) ==
    IF k > Len(act) THEN st
    ELSE Bind(AllocOne(act[k], st), LAMBDA next : AllocFrom(act, k + 1, next))

\* lines 45-90 for the sorted list act
PlanOfActive(ts, act, wd, we, td) ==
    IF act = <<>>
    THEN [plan |-> EmptyDict, warnings |-> <<>>, who |-> EmptyDict,
          warned |-> <<>>, tasks |-> CallerListAfterSort(ts)]
    ELSE Bind([tasks |-> CallerListAfterSort(ts),
               plan |-> BuildPlan(ts, act, td),
               cap |-> BuildCap(ts, act, td, wd, we),
               who |-> BuildPlan(ts, act, td),
               warnings |-> <<>>, warned |-> <<>>],
              LAMBDA first :
         Bind(AllocFrom(act, 1, first), LAMBDA st :
              [plan |-> Prune(st.plan), warnings |-> st.warnings,
               who |-> Prune(st.who), warned |-> st.warned,
               tasks |-> st.tasks]))

\* lines 39-90 as one function: [plan, warnings], the history of both, and
\* the caller's list after the call
GeneratePlan(list, wd, we, td) ==
    Bind(list, LAMBDA ts :
        Bind(SortActive(ts, FilterActive(ts)), LAMBDA act :
            PlanOfActive(ts, act, wd, we, td)))

-----------------------------------------------------------------------------
(* One call of generate_plan on inputs drawn from the domains *)

PlanTask ==
    [name : Names, start_date : DateStrs, due_date : DateStrs,
     remaining_hours : HoursSet, priority : Priorities]

TaskLists == UNION {[1..n -> PlanTask] : n \in 0..MaxTasks}

\* The planner only copies names into its output, so the first task is
\* named "A"; later tasks share that name or not.
Init ==
    /\ tasks \in {ts \in TaskLists : ts = <<>> \/ ts[1].name = "A"}
    /\ today \in {parse_date(s) : s \in DateStrs}
    /\ weekday_cap_hours \in WeekdayCaps
    /\ weekend_cap_hours \in WeekendCaps
    /\ pc = "start"
    /\ active = <<>>
    /\ cap = EmptyDict
    /\ plan = EmptyDict
    /\ warnings = <<>>
    /\ i = 0
    /\ who = EmptyDict
    /\ warned = <<>>

\* lines 42-49: filter, sort, and the early return
Enter ==
    /\ pc = "start"
    /\ active' = SortActive(tasks, FilterActive(tasks))
    /\ tasks' = CallerListAfterSort(tasks)
    /\ plan' = EmptyDict
    /\ warnings' = <<>>
    /\ pc' = IF active' = <<>> THEN "done" ELSE "table"
    /\ UNCHANGED <<today, weekday_cap_hours, weekend_cap_hours, cap, i, who,
                   warned>>

\* lines 51-66: the capacity table and the plan's keys
BuildTable ==
    /\ pc = "table"
    /\ cap' = BuildCap(tasks, active, today, weekday_cap_hours,
                       weekend_cap_hours)
    /\ plan' = BuildPlan(tasks, active, today)
    /\ who' = BuildPlan(tasks, active, today)
    /\ i' = 1
    /\ pc' = "alloc"
    /\ UNCHANGED <<tasks, today, weekday_cap_hours, weekend_cap_hours, active,
                   warnings, warned>>

\* lines 69-86: the for loop's body for active[i]
AllocateTask ==
    /\ pc = "alloc"
    /\ i <= Len(active)
    /\ \E st \in {AllocOne(active[i],
                     [tasks |-> tasks, plan |-> plan, cap |-> cap, who |-> who,
                      warnings |-> warnings, warned |-> warned])} :
          /\ tasks' = st.tasks
          /\ plan' = st.plan
          /\ cap' = st.cap
          /\ who' = st.who
          /\ warnings' = st.warnings
          /\ warned' = st.warned
    /\ i' = i + 1
    /\ UNCHANGED <<today, weekday_cap_hours, weekend_cap_hours, pc, active>>

\* lines 88-90: drop the empty days and return
Return ==
    /\ pc = "alloc"
    /\ i > Len(active)
    /\ plan' = Prune(plan)
    /\ who' = Prune(who)
    /\ pc' = "done"
    /\ UNCHANGED <<tasks, today, weekday_cap_hours, weekend_cap_hours, active,
                   cap, warnings, i, warned>>

Next == Enter \/ BuildTable \/ AllocateTask \/ Return

Spec == Init /\ [][Next]_vars

-----------------------------------------------------------------------------
(* The Streamlit script, lines 127-341: every handler saves the list and   *)
(* reruns the script, which normalises the records and shows the plan of   *)
(* the Plan tab.  The email fields take no part in planning and are left   *)
(* out.                                                                    *)

\* sliders of the Plan tab at their default values, 3.0 h and 2.0 h
DefaultWeekdayCap == 3000
DefaultWeekendCap == 2000

\* number inputs in steps of 0.5 h; a name left blank is refused
UiHours == {2000, 4000}
UiNames == {"A", ""}

\* lines 136, 304: remaining_hours = max(0.0, estimated_hours - done_hours)
Remaining(t) ==
    IF t.estimated_hours - t.done_hours > 0
    THEN t.estimated_hours - t.done_hours ELSE 0

\* lines 133-144 and 303-304
Normalize(ts) ==
    [k \in 1..Len(ts) |->
        [name |-> ts[k].name, start_date |-> ts[k].start_date,
         due_date |-> ts[k].due_date,
         estimated_hours |-> ts[k].estimated_hours,
         done_hours |-> ts[k].done_hours,
         remaining_hours |-> Remaining(ts[k]),
         priority |-> ts[k].priority, archived |-> ts[k].archived]]

\* save_tasks, st.rerun(), and the script's next run down to the Plan tab
\* (lines 130-144, 298-306)
Rerun(ts) ==
    /\ tasks' = Normalize(ts)
    /\ \E shown \in {GeneratePlan(tasks', weekday_cap_hours,
                                   weekend_cap_hours, today)} :
          /\ plan' = shown.plan
          /\ warnings' = shown.warnings
          /\ who' = shown.who
          /\ warned' = shown.warned
    /\ UNCHANGED <<today, weekday_cap_hours, weekend_cap_hours, pc, active,
                   cap, i>>

InitUI ==
    /\ tasks = <<>>
    /\ today \in {parse_date(s) : s \in DateStrs}
    /\ weekday_cap_hours = DefaultWeekdayCap
    /\ weekend_cap_hours = DefaultWeekendCap
    /\ pc = "done"
    /\ active = <<>>
    /\ cap = EmptyDict
    /\ plan = EmptyDict
    /\ warnings = <<>>
    /\ i = 0
    /\ who = EmptyDict
    /\ warned = <<>>

\* lines 202-219: the Add button
AddTask ==
    \E name \in UiNames, start \in DateStrs, due \in DateStrs,
       hours \in UiHours, priority \in Priorities :
        /\ Len(tasks) < MaxTasks
        /\ IF name = ""
           THEN UNCHANGED vars
           ELSE Rerun(Append(tasks,
                    [name |-> name, start_date |-> start, due_date |-> due,
                     estimated_hours |-> hours, done_hours |-> 0,
                     priority |-> priority, archived |-> FALSE]))

\* lines 286-290: the Update button of a listed task
UpdateTask ==
    \E k \in 1..Len(tasks), add_done \in UiHours :
        /\ ~tasks[k].archived
        /\ add_done <= tasks[k].estimated_hours
        /\ Rerun([tasks EXCEPT ![k].done_hours =
                     Min(tasks[k].estimated_hours, @ + add_done)])

\* lines 271-283: the Save edits button of a listed task
SaveEdits ==
    \E k \in 1..Len(tasks), new_due \in DateStrs, new_est \in UiHours,
       new_remaining \in UiHours \cup {0} :
        /\ ~tasks[k].archived
        /\ new_remaining <= new_est
        /\ Rerun([tasks EXCEPT
                     ![k].due_date = new_due,
                     ![k].estimated_hours = new_est,
                     ![k].done_hours = IF new_est - new_remaining > 0
                                       THEN new_est - new_remaining ELSE 0])

\* lines 292-296: the Delete button of a listed task
DeleteTask ==
    \E k \in 1..Len(tasks) :
        /\ ~tasks[k].archived
        /\ Rerun([tasks EXCEPT ![k].archived = TRUE])

\* lines 336-341: the Restore button of the History tab
RestoreTask ==
    \E k \in 1..Len(tasks) :
        /\ tasks[k].archived
        /\ Rerun([tasks EXCEPT ![k].archived = FALSE, ![k].done_hours = 0])

NextUI == AddTask \/ UpdateTask \/ SaveEdits \/ DeleteTask \/ RestoreTask

SpecUI == InitUI /\ [][NextUI]_vars

-----------------------------------------------------------------------------
(* Vocabulary of the properties *)

Done == pc = "done"

RECURSIVE SumF(_, _)
SumF(f, S) ==
    IF S = {} THEN 0
    ELSE LET x == CHOOSE y \in S : TRUE IN f[x] + SumF(f, S \ {x})

\* the capacity configured for a day key
Configured(dkey) ==
    IF Weekday(parse_date(dkey)) \in {5, 6} THEN weekend_cap_hours
    ELSE weekday_cap_hours

\* the hours shown in a day's entries, and the hours really taken that day
ShownOnDay(d) == SumSeq([j \in 1..Len(plan[d]) |-> plan[d][j][2]])
TakenOnDay(d) == SumSeq([j \in 1..Len(who[d]) |-> who[d][j].h])

\* the same for one task k (an index of the caller's list)
ShownFor(k, d) ==
    SumSeq([j \in 1..Len(who[d]) |->
               IF who[d][j].task = k THEN plan[d][j][2] ELSE 0])
TakenFor(k, d) ==
    SumSeq([j \in 1..Len(who[d]) |->
               IF who[d][j].task = k THEN who[d][j].h ELSE 0])
EntriesOf(k) ==
    UNION {{<<d, j>> : j \in {n \in 1..Len(who[d]) : who[d][n].task = k}} :
              d \in DOMAIN who}
ShownTotal(k) == SumF([d \in DOMAIN who |-> ShownFor(k, d)], DOMAIN who)
TakenTotal(k) == SumF([d \in DOMAIN who |-> TakenFor(k, d)], DOMAIN who)
TakenUpTo(k, day) ==
    LET ds == {d \in DOMAIN who : parse_date(d) <= day}
    IN SumF([d \in ds |-> TakenFor(k, d)], ds)

WarningsOf(k) == {j \in 1..Len(warned) : warned[j].task = k}
ReportedShort(k) ==
    SumF([j \in WarningsOf(k) |-> warnings[j].short], WarningsOf(k))
LeftShort(k) == SumF([j \in WarningsOf(k) |-> warned[j].left], WarningsOf(k))

Positive == {k \in 1..Len(tasks) : tasks[k].remaining_hours > 0}
StartOf(k) == parse_date(tasks[k].start_date)
DueOf(k) == parse_date(tasks[k].due_date)
MaxDue(K) ==
    IF K = {} THEN 0
    ELSE CHOOSE d \in {DueOf(k) : k \in K} : \A k \in K : DueOf(k) <= d
Abs(x) == IF x < 0 THEN -x ELSE x

-----------------------------------------------------------------------------
(* C1 *)

\* C1 as stated: on every day of the returned plan the hours of the entries
\* sum to at most the day's configured capacity.
C1_ShownSumWithinCapacity ==
    Done => \A d \in DOMAIN plan : ShownOnDay(d) <= Configured(d)

\* C1 as amended: the hours taken on a day sum to at most its configured
\* capacity; the entries show them rounded to 2 decimals, so the shown sum
\* is at most the capacity plus 0.005 per entry of that day.
C1_TakenSumWithinCapacity ==
    Done => \A d \in DOMAIN plan :
        /\ Len(who[d]) = Len(plan[d])
        /\ \A j \in 1..Len(plan[d]) : plan[d][j][2] = Round2(who[d][j].h)
        /\ TakenOnDay(d) <= Configured(d)
        /\ ShownOnDay(d) <= Configured(d) + 5 * Len(plan[d])

\* two tasks sharing a name fill one day, and the shown sum exceeds the cap
C1_Witness ==
    /\ Done
    /\ \E d \in DOMAIN plan :
        /\ Len(plan[d]) = 2
        /\ plan[d][1][1] = plan[d][2][1]
        /\ TakenOnDay(d) = Configured(d)
        /\ ShownOnDay(d) > Configured(d)

(* C2 *)

\* C2 as stated: shown hours of a task plus the shortfall its warning
\* reports equal its remaining_hours.
C2_ShownPlusReportedEqualsRemaining ==
    Done => \A k \in Positive :
        ShownTotal(k) + ReportedShort(k) = tasks[k].remaining_hours

\* C2 as amended: the hours taken plus the hours left equal remaining_hours;
\* the shown figures are these rounded to 2 decimals, so their sum differs
\* from remaining_hours by at most 0.005 per figure.
C2_TakenPlusLeftEqualsRemaining ==
    Done => \A k \in Positive :
        /\ Cardinality(WarningsOf(k)) <= 1
        /\ TakenTotal(k) + LeftShort(k) = tasks[k].remaining_hours
        /\ \A j \in WarningsOf(k) : warnings[j].short = Round2(warned[j].left)
        /\ Abs(ShownTotal(k) + ReportedShort(k) - tasks[k].remaining_hours)
             <= 5 * (Cardinality(EntriesOf(k)) + Cardinality(WarningsOf(k)))

\* a task processed after one that ended short, itself placed in part
C2_Witness ==
    /\ Done
    /\ \E k \in Positive, l \in Positive :
        /\ warned # <<>> /\ warned[1].task = l
        /\ Len(warned) = 2 /\ warned[2].task = k
        /\ TakenTotal(k) > 0

(* C3 *)

\* C3: every entry of a task lies on a day from the task's start_date
\* through its due_date, and from today (the table's first day) through the
\* last due date of the tasks with remaining_hours > 0.
C3_EntriesInsideWalkRangeAndTable ==
    \A d \in DOMAIN who : \A j \in 1..Len(who[d]) :
        LET k == who[d][j].task
            day == parse_date(d)
        IN /\ StartOf(k) <= day /\ day <= DueOf(k)
           /\ today <= day /\ day <= MaxDue(Positive)

\* a task that starts before the table's first day gets hours, inside it
C3_Witness ==
    /\ Done
    /\ \E k \in Positive : StartOf(k) < today /\ TakenTotal(k) > 0

(* C4 *)

\* the caller's list without the tasks that have nothing remaining
OnlyPositive == SelectSeq(tasks, LAMBDA t : t.remaining_hours > 0)

\* C4: a task with remaining_hours <= 0 has no entry and no warning, the
\* table ends at the last due date of the other tasks, the result is the
\* one the other tasks alone would get, and with no task left it is empty.
C4_InactiveTasksLeaveNoTrace ==
    /\ \A k \in (1..Len(tasks)) \ Positive :
          EntriesOf(k) = {} /\ WarningsOf(k) = {}
    /\ pc = "alloc" =>
          DOMAIN cap = {StrDate(d) : d \in today..MaxDue(Positive)}
    /\ Done /\ Positive = {} => plan = EmptyDict /\ warnings = <<>>
    /\ Done =>
          LET alone == GeneratePlan(OnlyPositive, weekday_cap_hours,
                                    weekend_cap_hours, today)
          IN plan = alone.plan /\ warnings = alone.warnings

\* a finished task is due after every task that is planned
C4_Witness ==
    /\ Done
    /\ plan # EmptyDict
    /\ \E k \in (1..Len(tasks)) \ Positive : DueOf(k) > MaxDue(Positive)

(* C5 *)

\* a is served before b: earlier due date, or the same and lower priority
Before(a, b) ==
    \/ DueOf(a) < DueOf(b)
    \/ DueOf(a) = DueOf(b) /\ tasks[a].priority < tasks[b].priority

EntryPos(k, d) == CHOOSE j \in 1..Len(who[d]) : who[d][j].task = k

\* C5: of two tasks with remaining hours, the one with the smaller
\* (due_date, priority) comes first in every day's list they share, and the
\* other gets hours on a day of the first one's walk range only if the
\* first one's hours are all placed by that day.
C5_SmallerKeyServedFirst ==
    Done => \A a \in Positive, b \in Positive :
        Before(a, b) => \A d \in DOMAIN who :
            TakenFor(b, d) > 0 =>
               /\ TakenFor(a, d) > 0 => EntryPos(a, d) < EntryPos(b, d)
               /\ (StartOf(a) <= parse_date(d) /\ parse_date(d) <= DueOf(a))
                     => TakenUpTo(a, parse_date(d)) = tasks[a].remaining_hours

\* same due date, the priority-1 task is later in the caller's list, and
\* both get hours on one day
C5_Witness ==
    /\ Done
    /\ Len(tasks) = 2
    /\ tasks[1].due_date = tasks[2].due_date
    /\ tasks[1].priority = 2 /\ tasks[2].priority = 1
    /\ \E d \in DOMAIN who : TakenFor(1, d) > 0 /\ TakenFor(2, d) > 0

(* C6 *)

\* the caller's list without its k-th task
Without(k) == SubSeq(tasks, 1, k - 1) \o SubSeq(tasks, k + 1, Len(tasks))
WarningsWithout(k) ==
    LET keep == SelectSeq([j \in 1..Len(warned) |-> j],
                          LAMBDA j : warned[j].task # k)
    IN [n \in 1..Len(keep) |-> warnings[keep[n]]]

WalkRange(k) == StartOf(k)..DueOf(k)

C8_InputUnchanged ==
    [][/\ tasks' = tasks
       /\ pc' = "done" =>
             LET again == GeneratePlan(tasks', weekday_cap_hours',
                                       weekend_cap_hours', today')
             IN plan' = again.plan /\ warnings' = again.warnings]_vars

\* the sort reordered the local list and the walk left a task short
C8_Witness ==
    /\ Done
    /\ active = <<2, 1>>
    /\ Len(warned) = 1
    /\ TakenTotal(warned[1].task) > 0

(* C9 *)

\* C9: in one pass of the for loop the task takes, on each day of its walk
\* range that has capacity left, the smaller of that capacity and its hours
\* still open, and nothing on any other day; it is warned about only if no
\* day of its walk range in the table has capacity left, and every day it
\* took hours on, except the last, is left with none.
C9_GreedyEarliestFirst ==
    [][(pc = "alloc" /\ i' = i + 1) =>
         LET k == active[i]
             InRange(d) == StartOf(k) <= parse_date(d) /\ parse_date(d) <= DueOf(k)
             Took(d) == cap[d] - cap'[d]
             Earlier(d) == {e \in DOMAIN cap : parse_date(e) < parse_date(d)}
             OpenAt(d) == tasks[k].remaining_hours
                             - SumF([e \in Earlier(d) |-> Took(e)], Earlier(d))
             TookDays == {d \in DOMAIN cap : Took(d) > 0}
         IN /\ DOMAIN cap' = DOMAIN cap
            /\ \A d \in DOMAIN cap :
                  /\ Took(d) = IF InRange(d) /\ cap[d] > 0
                               THEN (IF cap[d] <= OpenAt(d) THEN cap[d]
                                     ELSE OpenAt(d))
                               ELSE 0
                  /\ who'[d] = IF Took(d) > 0
                               THEN Append(who[d], [task |-> k, h |-> Took(d)])
                               ELSE who[d]
            /\ Len(warnings') > Len(warnings) =>
                  \A d \in DOMAIN cap : InRange(d) => cap'[d] = 0
            /\ \A d \in TookDays :
                  (\E e \in TookDays : parse_date(e) > parse_date(d))
                     => cap'[d] = 0]_vars

\* one task took hours on two days, and one was left short
C9_Witness ==
    /\ Done
    /\ \E k \in Positive : Cardinality(EntriesOf(k)) = 2
    /\ warned # <<>>

(* C10 *)

\* C10: a task that is archived has no entry and no warning in the plan the
\* Plan tab shows, and the tasks that are not archived are shown the plan
\* they would get if the archived ones were not in the list.
C10_ArchivedTaskNotPlanned ==
    /\ \A k \in 1..Len(tasks) :
          tasks[k].archived => EntriesOf(k) = {} /\ WarningsOf(k) = {}
    /\ LET listed == SelectSeq(tasks, LAMBDA t : ~t.archived)
           alone == GeneratePlan(listed, weekday_cap_hours, weekend_cap_hours,
                                 today)
       IN plan = alone.plan /\ warnings = alone.warnings

=============================================================================
